---------------------------- MODULE Spec2Model ----------------------------
(***************************************************************************)
(* Model of tecracer/agentcore-mcp-authentication.                         *)
(*                                                                         *)
(* Five programs of the repository are modelled; they share no state, so   *)
(* a behaviour is a run of exactly one of them (variable `program`):       *)
(*   "agent_m2m"  04_blogpost_single_agent_mcp/blogpost_single_agent_mcp.py *)
(*   "agent_user" user_authentication/.../blogpost_single_agent_mcp_userCred.py *)
(*   "cli"        03_blogpost_deploy_mcp/blogpost_invoke_mcp_tools_userCred.py *)
(*   "local"      03_blogpost_deploy_mcp/blogpost_mcp_client.py             *)
(*   "setup"      m2m_authentication/03_deploy_mcp/setup_M2M_cognito.py     *)
(*                                                                         *)
(* The agent entrypoint is an `async def` without any `await`: once the    *)
(* event loop has started an invocation it runs to its `return` before any *)
(* other invocation is started (variable `running`).                       *)
(***************************************************************************)
EXTENDS Integers, Sequences, FiniteSets, TLC

\* ------------------------------------------------------------------ bounds
NInvokers == 2      \* invocations that reach the agent entrypoint
MaxTime == 2        \* last value of the clock
MaxRuns == 2        \* runs of the setup script for the MCP names followed
MaxOthers == 60     \* runs of `setup` for other MCP names

Invokers == 1..NInvokers
None == "None"
NoClient == 0       \* the value None of the globals `agent` and `mcp_client`

VARIABLES
    program,      \* which of the repository's programs this behaviour runs
    now,          \* the clock (datetime.now().timestamp(), in ticks)
    agent,        \* module global `agent`: NoClient, or the client its tools use
    mcp_client,   \* module global `mcp_client`: NoClient, or an index of clients
    clients,      \* every MCPClient built so far: [token, started]
    running,      \* the invocation the event loop is executing, 0 if none
    inv,          \* per invocation: position, locals, what it did, result
    cli,          \* the CLI client's main(): position, locals, what it did
    aws           \* the account the setup script works on: Cognito and SSM

vars == <<program, now, agent, mcp_client, clients, running, inv, cli, aws>>

\* --------------------------------------------------------------- exceptions
Exc(type, msg, status) == [type |-> type, msg |-> msg, status |-> status]
NoExc == Exc("", "", 0)

\* ------------------------------------------------- the OAuth2 HTTP exchange
\* What the identity provider may answer to get_bearer_token's two requests.
DiscoveryStatuses == {200, 404}
TokenStatuses == {200, 400, 401}

\* A bearer token as the agent sees it: opaque, with the expiry the provider set.
AgentToken(kind, exp) == [kind |-> kind, exp |-> exp]
NoToken == AgentToken("none", 0)

ErrorBody == [error |-> "invalid_client"]

\* The JSON body of the token endpoint's answer: a mapping of some field names.
\* A token issued at t expires one tick later.
TokenBodies(t) ==
    { [access_token |-> AgentToken("access", t + 1), id_token |-> AgentToken("id", t + 1)],
      [id_token |-> AgentToken("id", t + 1)],
      ErrorBody }

\* One run of the environment during get_bearer_token: how the two HTTP
\* requests are answered. A part of the exchange that the answers before it
\* make unreachable is left at a fixed value.
AllOAuthEnvs(t) ==
    [ silent : {"none", "get", "post"},     \* the request the server never answers
      get_raises : BOOLEAN,                 \* requests.get raises (DNS, TLS, refused)
      disc_status : DiscoveryStatuses,
      disc_is_json : BOOLEAN,               \* response.json() parses
      disc_has_endpoint : BOOLEAN,          \* 'token_endpoint' in the discovery document
      post_raises : BOOLEAN,
      post_status : TokenStatuses,
      post_is_json : BOOLEAN,               \* response.json() parses
      post_body : TokenBodies(t) ]
DiscoveryOk(env) ==
    /\ env.silent # "get"
    /\ ~env.get_raises /\ env.disc_status = 200 /\ env.disc_is_json /\ env.disc_has_endpoint
OAuthEnvs(t) ==
    { env \in AllOAuthEnvs(t) :
        /\ env.silent = "get" => (~env.get_raises /\ env.disc_status = 200
                                     /\ env.disc_is_json /\ env.disc_has_endpoint)
        /\ env.silent = "post" => (DiscoveryOk(env) /\ ~env.post_raises /\ env.post_status = 200
                                      /\ env.post_is_json /\ env.post_body = ErrorBody)
        /\ env.get_raises => env.disc_status = 200
        /\ (env.get_raises \/ env.disc_status # 200) => env.disc_is_json
        /\ (env.get_raises \/ env.disc_status # 200 \/ ~env.disc_is_json) => env.disc_has_endpoint
        /\ ~DiscoveryOk(env) => ~env.post_raises
        /\ (~DiscoveryOk(env) \/ env.post_raises) => (env.post_status = 200 /\ env.post_is_json)
        /\ (~DiscoveryOk(env) \/ env.post_raises \/ ~env.post_is_json \/ env.post_status # 200)
              => env.post_body = ErrorBody }
NoOAuthEnv ==
    [ silent |-> "none", get_raises |-> TRUE, disc_status |-> 200, disc_is_json |-> TRUE,
      disc_has_endpoint |-> TRUE, post_raises |-> FALSE, post_status |-> 200,
      post_is_json |-> TRUE, post_body |-> ErrorBody ]

\* get_bearer_token(discovery_url, client_id, client_secret): what it returns or
\* raises, and the HTTP requests it made on the way.
Returned(tok, gets, posts) ==
    [raised |-> FALSE, hung |-> FALSE, exc |-> NoExc, token |-> tok, gets |-> gets, posts |-> posts]
Raised(e, gets, posts) ==
    [raised |-> TRUE, hung |-> FALSE, exc |-> e, token |-> NoToken, gets |-> gets, posts |-> posts]
\* The call has not come back: it waits for an answer.
Hung(gets, posts) ==
    [raised |-> FALSE, hung |-> TRUE, exc |-> NoExc, token |-> NoToken, gets |-> gets, posts |-> posts]

\* requests.get(discovery_url) and requests.post(token_endpoint, data=...,
\* headers=...) pass no `timeout`: requests then waits for the answer without
\* limit. With a timeout it would raise requests.Timeout.
RequestsTimeout == None
Unanswered(timeout, gets, posts) ==
    IF timeout = None THEN Hung(gets, posts)
    ELSE Raised(Exc("Timeout", "", 0), gets, posts)

\* A plausible slip: a missing or unreadable discovery document falls back to a
\* default token endpoint instead of raising.
DiscoverWithFallback(env) ==
    IF env.silent = "get"
    THEN Unanswered(RequestsTimeout, 1, 0)
    ELSE IF env.get_raises
    THEN Raised(Exc("ConnectionError", "discovery", 0), 1, 0)
    ELSE Returned(NoToken, 1, 0)

\* requests.get(discovery_url) and token_endpoint = discovery_data['token_endpoint'].
Discover(env) ==
    IF env.silent = "get"
    THEN Unanswered(RequestsTimeout, 1, 0)
    ELSE IF env.get_raises
    THEN Raised(Exc("ConnectionError", "discovery", 0), 1, 0)
    ELSE IF env.disc_status # 200
    THEN Raised(Exc("Exception", "Failed to fetch discovery data", env.disc_status), 1, 0)
    ELSE IF ~env.disc_is_json
    THEN Raised(Exc("JSONDecodeError", "discovery", 0), 1, 0)
    ELSE IF ~env.disc_has_endpoint
    THEN Raised(Exc("KeyError", "token_endpoint", 0), 1, 0)
    ELSE Returned(NoToken, 1, 0)

\* A plausible slip: take whichever token the body holds.
TokenFrom200AnyToken(env) ==
    IF ~env.post_is_json
    THEN Raised(Exc("JSONDecodeError", "token", 0), 1, 1)
    ELSE IF "access_token" \in DOMAIN env.post_body
    THEN Returned(env.post_body.access_token, 1, 1)
    ELSE IF "id_token" \in DOMAIN env.post_body
    THEN Returned(env.post_body.id_token, 1, 1)
    ELSE Raised(Exc("Exception", "No access token in response", 0), 1, 1)

\* The branch `if response.status_code == 200:` of the token request.
TokenFrom200(env) ==
    IF ~env.post_is_json
    THEN Raised(Exc("JSONDecodeError", "token", 0), 1, 1)
    ELSE IF "access_token" \in DOMAIN env.post_body
    THEN Returned(env.post_body.access_token, 1, 1)
    ELSE Raised(Exc("Exception", "No access token in response", 0), 1, 1)

\* A plausible slip: the error body is parsed without the try/except.
TokenRequestFailedParsing(env) ==
    IF ~env.post_is_json
    THEN Raised(Exc("JSONDecodeError", "token", 0), 1, 1)
    ELSE Raised(Exc("Exception", "Token request failed with status", env.post_status), 1, 1)

\* The `else:` branch: the error body is logged as JSON if it parses, as text
\* if it does not (a bare `except:`), and the status is raised either way.
TokenRequestFailed(env) ==
    Raised(Exc("Exception", "Token request failed with status", env.post_status), 1, 1)

\* requests.post(token_endpoint, data=..., headers=...) and what follows it.
RequestToken(env) ==
    IF env.silent = "post"
    THEN Unanswered(RequestsTimeout, 1, 1)
    ELSE IF env.post_raises
    THEN Raised(Exc("ConnectionError", "token", 0), 1, 1)
    ELSE IF env.post_status = 200
    THEN TokenFrom200(env)
    ELSE TokenRequestFailed(env)

get_bearer_token(env) ==
    LET d == Discover(env)
    IN IF d.raised \/ d.hung THEN d ELSE RequestToken(env)

\* ------------------------------------------- the user-password flow (boto3)
\* One run of the environment during get_cognito_bearer_token.
AllUserAuthEnvs(t) ==
    [ ssm_fail : 0..3,                      \* which of the three lookups fails, 0: none
      auth : {"ok", "NotAuthorizedException", "EndpointConnectionError"},
      response : {"token", "no_AuthenticationResult", "no_AccessToken"},
      token : {NoToken, AgentToken("access", t + 1)} ]
UserAuthEnvs(t) ==
    { env \in AllUserAuthEnvs(t) :
        /\ env.ssm_fail # 0 => env.auth = "ok"
        /\ (env.ssm_fail # 0 \/ env.auth # "ok") => env.response = "no_AuthenticationResult"
        /\ (env.token # NoToken) <=> (env.response = "token") }
NoUserAuthEnv ==
    [ ssm_fail |-> 1, auth |-> "ok", response |-> "no_AuthenticationResult", token |-> NoToken ]

\* What the provider's answer holds at ['AuthenticationResult']['AccessToken'].
ProviderReturnedToken(env) ==
    env.ssm_fail = 0 /\ env.auth = "ok" /\ env.response = "token"

\* A plausible slip: a failure is answered with None, as the CLI does, and
\* create_agent goes on with it.
get_cognito_bearer_token_returning_none(env) ==
    IF env.ssm_fail # 0
    THEN Returned(NoToken, 0, 0)
    ELSE IF env.auth # "ok"
    THEN Returned(NoToken, 0, 1)
    ELSE IF env.response # "token"
    THEN Returned(NoToken, 0, 1)
    ELSE Returned(env.token, 0, 1)

\* get_cognito_bearer_token(mcp_name) of the agent: every failure is re-raised
\* as Exception("Error getting Cognito token: ...").
get_cognito_bearer_token_agent(env) ==
    IF env.ssm_fail # 0
    THEN Raised(Exc("Exception", "Error getting Cognito token", 0), 0, 0)
    ELSE IF env.auth # "ok"
    THEN Raised(Exc("Exception", "Error getting Cognito token", 0), 0, 1)
    ELSE IF env.response # "token"
    THEN Raised(Exc("Exception", "Error getting Cognito token", 0), 0, 1)
    ELSE Returned(env.token, 0, 1)

\* ---------------------------------------------------------- the agent program
AgentPrograms == {"agent_m2m", "agent_user"}

\* payload.get("input") or payload.get("prompt"): None and "" are falsy.
PayloadValues == {None, "", "hi"}
Payloads == [input : PayloadValues, prompt : PayloadValues]
Truthy(v) == v # None /\ v # ""
UserInput(p) == IF Truthy(p.input) THEN p.input ELSE p.prompt

NoPayload == [input |-> None, prompt |-> None]
Result(kind, e, session) == [kind |-> kind, exc |-> e, session |-> session]
NoResult == Result("", NoExc, 0)

\* An invocation that has not arrived yet.
IdleInvocation ==
    [ pc |-> "idle", payload |-> NoPayload, user_input |-> None,
      racer |-> FALSE,          \* arrived before any session or creation existed
      stale |-> FALSE,          \* started when the cached session's token had expired
      found |-> NoClient,       \* the global `agent` as the invocation found it
      client |-> NoClient,      \* the MCPClient its create_agent built
      ssm_fail |-> 0,           \* which get_ssm_parameter call of create_agent raised
      bearer_token |-> NoToken, \* create_agent's local
      oauth |-> NoOAuthEnv,     \* how the provider answered get_bearer_token
      userauth |-> NoUserAuthEnv, \* how it answered get_cognito_bearer_token
      nCreate |-> 0,            \* create_agent calls
      nLookup |-> 0,            \* get_ssm_parameter / ssm get_parameter calls
      nGetToken |-> 0,          \* get_bearer_token / get_cognito_bearer_token calls
      nHttpGet |-> 0,           \* GETs of the discovery document
      nPost |-> 0,              \* POSTs to a token endpoint / initiate_auth calls
      nStart |-> 0,             \* mcp_client.start() calls (connect + initialize)
      listed |-> FALSE,         \* mcp_client.list_tools_sync() returned the tools
      nRun |-> 0,               \* agent(user_input) calls
      runErr |-> "",            \* how the first agent(user_input) failed, if it did
      result |-> NoResult ]

\* How a call that goes to the MCP server may end: it succeeds, the server
\* rejects it with an authentication-class HTTP status, or it fails otherwise
\* (transport, protocol, remote tool error).
AuthStatuses == {401, 403}
CallOutcomes ==
    {[o |-> "ok", status |-> 0], [o |-> "other", status |-> 0]}
        \cup {[o |-> "auth", status |-> st] : st \in AuthStatuses}

Started == {k \in 1..Len(clients) : clients[k].started}

AgentIdle ==
    /\ agent = NoClient
    /\ mcp_client = NoClient
    /\ clients = <<>>
    /\ running = 0
    /\ inv = [i \in Invokers |-> IdleInvocation]

agentVars == <<agent, mcp_client, clients, running, inv>>

\* The clock advances. The agent reads no clock and the provider stamps a token
\* when it answers, so a tick during an invocation shows no more than one just
\* before or after it: ticks are taken between invocations.
Tick ==
    /\ now < MaxTime
    /\ running = 0
    /\ now' = now + 1
    /\ UNCHANGED <<program, aws, agentVars, cli>>

\* A request reaches the runtime and waits for the event loop. Invocations are
\* numbered in the order of their arrival.
Arrive(i) ==
    /\ program \in AgentPrograms
    /\ inv[i].pc = "idle"
    /\ \A j \in 1..(i - 1) : inv[j].pc # "idle"
    /\ inv' = [inv EXCEPT ![i].pc = "arrived",
                          ![i].racer = (agent = NoClient /\ \A j \in Invokers : inv[j].nCreate = 0)]
    /\ UNCHANGED <<program, aws, now, agent, mcp_client, clients, running, cli>>

\* The event loop calls single_agent_mcp_bedrock(payload); nothing else runs
\* until it returns.
Dispatch(i) ==
    /\ program \in AgentPrograms
    /\ running = 0
    /\ inv[i].pc = "arrived"
    /\ running' = i
    /\ \E p \in Payloads :
         inv' = [inv EXCEPT ![i].pc = "entry", ![i].payload = p, ![i].found = agent,
                            ![i].stale = (agent # NoClient /\ clients[agent].token.exp <= now)]
    /\ UNCHANGED <<program, aws, now, agent, mcp_client, clients, cli>>

\* `return <message>` of single_agent_mcp_bedrock.
Return(base, i, r) ==
    /\ running' = 0
    /\ inv' = [base EXCEPT ![i].pc = "done", ![i].result = r, ![i].payload = NoPayload]

\* A plausible slip: `if user_input is None:` in place of `if not user_input:`.
EntryNoneOnly(i) ==
    /\ running = i
    /\ inv[i].pc = "entry"
    /\ IF UserInput(inv[i].payload) = None
       THEN Return(inv, i, Result("no_input", NoExc, 0))
       ELSE /\ inv' = [inv EXCEPT ![i].pc = "check", ![i].payload = NoPayload,
                                  ![i].user_input = UserInput(inv[i].payload)]
            /\ UNCHANGED running
    /\ UNCHANGED <<program, aws, now, agent, mcp_client, clients, cli>>

\* user_input = payload.get("input") or payload.get("prompt"); if not user_input: return
Entry(i) ==
    /\ running = i
    /\ inv[i].pc = "entry"
    /\ IF ~Truthy(UserInput(inv[i].payload))
       THEN Return(inv, i, Result("no_input", NoExc, 0))
       ELSE /\ inv' = [inv EXCEPT ![i].pc = "check", ![i].payload = NoPayload,
                                  ![i].user_input = UserInput(inv[i].payload)]
            /\ UNCHANGED running
    /\ UNCHANGED <<program, aws, now, agent, mcp_client, clients, cli>>

\* A plausible slip: the guard is lost and every invocation creates the agent.
CheckAgentAlwaysCreating(i) ==
    /\ running = i
    /\ inv[i].pc = "check"
    /\ inv' = [inv EXCEPT ![i].pc = IF program = "agent_m2m" THEN "create_ssm" ELSE "create_token",
                          ![i].nCreate = @ + 1]
    /\ UNCHANGED <<program, aws, now, agent, mcp_client, clients, running, cli>>

\* if agent is None: agent = create_agent() ... else: use the existing agent
CheckAgent(i) ==
    /\ running = i
    /\ inv[i].pc = "check"
    /\ inv' = [inv EXCEPT ![i].pc = IF agent = NoClient
                                    THEN (IF program = "agent_m2m" THEN "create_ssm" ELSE "create_token")
                                    ELSE "run",
                          ![i].nCreate = IF agent = NoClient THEN @ + 1 ELSE @]
    /\ UNCHANGED <<program, aws, now, agent, mcp_client, clients, running, cli>>

\* create_agent raised: the entrypoint returns "Failed to create agent: ..." and
\* leaves the global `agent` as it was.
CreateFailed(base, i, e) == Return(base, i, Result("create_failed", e, 0))

\* create_agent, M2M: the three get_ssm_parameter calls; a failing one raises
\* ValueError and the later ones are not made.
CreateSsm(i) ==
    /\ running = i
    /\ inv[i].pc = "create_ssm"
    /\ \E fail \in 0..3 :
         IF fail # 0
         THEN CreateFailed([inv EXCEPT ![i].nLookup = @ + fail, ![i].ssm_fail = fail], i,
                           Exc("ValueError", "Failed to retrieve SSM parameter", 0))
         ELSE /\ inv' = [inv EXCEPT ![i].pc = "create_token", ![i].nLookup = @ + 3]
              /\ UNCHANGED running
    /\ UNCHANGED <<program, aws, now, agent, mcp_client, clients, cli>>

\* A plausible slip: a failed token call is swallowed and create_agent goes on
\* without a token.
TokenReturnedIgnoringFailure(i, r, base) ==
    /\ inv' = [base EXCEPT ![i].nGetToken = @ + 1, ![i].nHttpGet = @ + r.gets,
                           ![i].nPost = @ + r.posts,
                           ![i].pc = IF r.hung THEN "hung" ELSE "create_client",
                           ![i].bearer_token = r.token]
    /\ UNCHANGED running

\* bearer_token = get_bearer_token(...) / get_cognito_bearer_token(mcp_name)
TokenReturned(i, r, base) ==
    LET counted == [base EXCEPT ![i].nGetToken = @ + 1, ![i].nHttpGet = @ + r.gets,
                                ![i].nPost = @ + r.posts]
    IN IF r.hung
       THEN /\ inv' = [counted EXCEPT ![i].pc = "hung"]
            /\ UNCHANGED running
       ELSE IF r.raised
       THEN CreateFailed(counted, i, r.exc)
       ELSE /\ inv' = [counted EXCEPT ![i].pc = "create_client", ![i].bearer_token = r.token]
            /\ UNCHANGED running

CreateToken(i) ==
    /\ running = i
    /\ inv[i].pc = "create_token"
    /\ IF program = "agent_m2m"
       THEN \E env \in OAuthEnvs(now) :
              TokenReturned(i, get_bearer_token(env), [inv EXCEPT ![i].oauth = env])
       ELSE \E env \in UserAuthEnvs(now) :
              TokenReturned(i, get_cognito_bearer_token_agent(env),
                            [inv EXCEPT ![i].userauth = env])
    /\ UNCHANGED <<program, aws, now, agent, mcp_client, clients, cli>>

\* mcp_client = MCPClient(lambda: streamablehttp_client(url, {"authorization": ...}))
\* then model = BedrockModel(...), which may raise.
CreateClient(i) ==
    /\ running = i
    /\ inv[i].pc = "create_client"
    /\ clients' = Append(clients, [token |-> inv[i].bearer_token, started |-> FALSE])
    /\ mcp_client' = Len(clients) + 1
    /\ \E model_ok \in BOOLEAN :
         LET built == [inv EXCEPT ![i].client = Len(clients) + 1]
         IN IF model_ok
            THEN /\ inv' = [built EXCEPT ![i].pc = "create_start"]
                 /\ UNCHANGED running
            ELSE CreateFailed(built, i, Exc("Exception", "BedrockModel", 0))
    /\ UNCHANGED <<program, aws, now, agent, cli>>

\* A plausible slip: a failed start() is swallowed and create_agent goes on.
CreateStartIgnoringFailure(i) ==
    /\ running = i
    /\ inv[i].pc = "create_start"
    /\ \E c \in CallOutcomes :
         /\ clients' = [clients EXCEPT ![mcp_client].started = (c.o = "ok")]
         /\ inv' = [inv EXCEPT ![i].pc = "create_list", ![i].nStart = @ + 1]
         /\ UNCHANGED running
    /\ UNCHANGED <<program, aws, now, agent, mcp_client, cli>>

\* mcp_client.start(): connect and initialize in the client's background thread;
\* a failure raises and leaves the client not started.
CreateStart(i) ==
    /\ running = i
    /\ inv[i].pc = "create_start"
    /\ \E c \in CallOutcomes :
         IF c.o = "ok"
         THEN /\ clients' = [clients EXCEPT ![mcp_client].started = TRUE]
              /\ inv' = [inv EXCEPT ![i].pc = "create_list", ![i].nStart = @ + 1]
              /\ UNCHANGED running
         ELSE /\ CreateFailed([inv EXCEPT ![i].nStart = @ + 1], i,
                              Exc("MCPClientInitializationError", c.o, c.status))
              /\ UNCHANGED clients
    /\ UNCHANGED <<program, aws, now, agent, mcp_client, cli>>

\* all_tools = mcp_client.list_tools_sync()
CreateList(i) ==
    /\ running = i
    /\ inv[i].pc = "create_list"
    /\ \E ok \in BOOLEAN :
         IF ok
         THEN /\ inv' = [inv EXCEPT ![i].pc = "create_agent", ![i].listed = TRUE]
              /\ UNCHANGED running
         ELSE CreateFailed(inv, i, Exc("Exception", "list_tools_sync", 0))
    /\ UNCHANGED <<program, aws, now, agent, mcp_client, clients, cli>>

\* agent = Agent(model=model, tools=all_tools, ...); return agent; and the
\* entrypoint's `agent = create_agent()`.
CreateAgent(i) ==
    /\ running = i
    /\ inv[i].pc = "create_agent"
    /\ \E ok \in BOOLEAN :
         IF ok
         THEN /\ agent' = mcp_client
              /\ inv' = [inv EXCEPT ![i].pc = "run"]
              /\ UNCHANGED running
         ELSE /\ CreateFailed(inv, i, Exc("Exception", "Agent", 0))
              /\ UNCHANGED agent
    /\ UNCHANGED <<program, aws, now, mcp_client, clients, cli>>

\* A plausible slip: a failed agent(user_input) is tried once more.
AfterRunFailureRetrying(i, c) ==
    /\ IF inv[i].nRun = 0
       THEN /\ inv' = [inv EXCEPT ![i].nRun = @ + 1, ![i].runErr = c.o]
            /\ UNCHANGED running
       ELSE Return([inv EXCEPT ![i].nRun = @ + 1, ![i].runErr = IF @ = "" THEN c.o ELSE @],
                   i, Result("exec_failed", Exc("Exception", c.o, c.status), agent))
    /\ UNCHANGED <<agent, mcp_client, clients>>

\* What the entrypoint does when agent(user_input) raised: return the message.
AfterRunFailure(i, c) ==
    /\ Return([inv EXCEPT ![i].nRun = @ + 1, ![i].runErr = IF @ = "" THEN c.o ELSE @],
              i, Result("exec_failed", Exc("Exception", c.o, c.status), agent))
    /\ UNCHANGED <<agent, mcp_client, clients>>

\* response = agent(user_input); return response.message['content'][0]['text']
Run(i) ==
    /\ running = i
    /\ inv[i].pc = "run"
    /\ \E c \in CallOutcomes :
         IF c.o = "ok"
         THEN /\ Return([inv EXCEPT ![i].nRun = @ + 1], i, Result("ok", NoExc, agent))
              /\ UNCHANGED <<agent, mcp_client, clients>>
         ELSE AfterRunFailure(i, c)
    /\ UNCHANGED <<program, aws, now, cli>>

\* ------------------------------------------------------- JWTs, as the CLI sees them
\* A token string is modelled by its dot-separated segments (bearer_token.split('.')).
\* Of a segment the model keeps its length modulo 4, what its base64 decoding
\* holds, and, for a JSON object, its `exp` claim.
Seg(len4, content, has_exp, exp) ==
    [len4 |-> len4, content |-> content, has_exp |-> has_exp, exp |-> exp]
OpaqueSeg == Seg(0, "opaque", FALSE, 0)
EmptySeg == Seg(0, "empty", FALSE, 0)

Str(parts) == [none |-> FALSE, parts |-> parts]
NoneValue == [none |-> TRUE, parts |-> <<>>]
EmptyStr == Str(<<EmptySeg>>)
\* `not bearer_token`
Falsy(tok) == tok.none \/ tok = EmptyStr

\* Payload segments that decode to a JSON object.
ObjectSegs ==
    {Seg(l, "object", TRUE, e) : l \in {0, 2}, e \in 0..(MaxTime + 1)}
        \cup {Seg(0, "object", FALSE, 0)}
\* Payload segments that do not: one character too many for base64, bytes that
\* are not JSON, JSON that is not an object.
BrokenSegs ==
    {Seg(1, "object", TRUE, 0), Seg(0, "not_json", FALSE, 0), Seg(0, "array", FALSE, 0)}

WellFormedJwts == {Str(<<OpaqueSeg, p, OpaqueSeg>>) : p \in ObjectSegs}
MalformedJwts ==
    {Str(<<OpaqueSeg, p, OpaqueSeg>>) : p \in BrokenSegs}
        \cup {Str(<<OpaqueSeg, p>>) : p \in {Seg(0, "object", TRUE, 0)}}
        \cup {Str(<<OpaqueSeg, p, OpaqueSeg, OpaqueSeg>>) : p \in {Seg(0, "object", TRUE, 0)}}
Jwts == WellFormedJwts \cup MalformedJwts
WellFormed(tok) ==
    /\ ~tok.none
    /\ Len(tok.parts) = 3
    /\ tok.parts[2].len4 # 1
    /\ tok.parts[2].content = "object"

\* payload += '=' * (4 - len % 4); base64.b64decode; .decode('utf-8'); json.loads;
\* then payload_json.get, which only a JSON object has.
DecodePayload(seg) ==
    IF seg.len4 = 1 THEN [raises |-> TRUE, has_exp |-> FALSE, exp |-> 0]
    ELSE IF seg.content # "object" THEN [raises |-> TRUE, has_exp |-> FALSE, exp |-> 0]
    ELSE [raises |-> FALSE, has_exp |-> seg.has_exp, exp |-> seg.exp]

\* A plausible slip: a token that cannot be decoded is reported expired.
check_token_expiry_fail_closed(tok, t) ==
    IF Len(tok.parts) # 3 THEN FALSE
    ELSE LET d == DecodePayload(tok.parts[2])
             exp == IF d.has_exp THEN d.exp ELSE 0
         IN IF d.raises THEN FALSE
            ELSE IF exp < t THEN FALSE ELSE TRUE

\* check_token_expiry(bearer_token) at clock value t: TRUE means "token valid".
check_token_expiry(tok, t) ==
    IF Len(tok.parts) # 3 THEN TRUE
    ELSE LET d == DecodePayload(tok.parts[2])
             exp == IF d.has_exp THEN d.exp ELSE 0
         IN IF d.raises THEN TRUE
            ELSE IF exp < t THEN FALSE ELSE TRUE

\* ------------------------------------- the user-password flow (aws CLI subprocess)
AllCliAuthEnvs ==
    [ ssm_fail : 0..3,                      \* which of the three lookups fails, 0: none
      exit_zero : BOOLEAN,                  \* `aws cognito-idp initiate-auth` exit status
      stdout : {"token", "not_json", "no_AuthenticationResult", "no_AccessToken"},
      token : Jwts \cup {EmptyStr, NoneValue} ]
CliAuthEnvs ==
    { env \in AllCliAuthEnvs :
        /\ env.ssm_fail # 0 => env.exit_zero
        /\ (env.ssm_fail # 0 \/ ~env.exit_zero) => env.stdout = "not_json"
        /\ (env.token # NoneValue) <=> (env.stdout = "token") }
NoCliAuthEnv ==
    [ ssm_fail |-> 1, exit_zero |-> TRUE, stdout |-> "not_json", token |-> NoneValue ]

CliProviderReturnedToken(env) ==
    env.ssm_fail = 0 /\ env.exit_zero /\ env.stdout = "token"

CliReturned(tok, auths) == [raised |-> FALSE, exc |-> NoExc, ret |-> tok, auths |-> auths]
CliRaised(e, auths) == [raised |-> TRUE, exc |-> e, ret |-> NoneValue, auths |-> auths]

\* get_cognito_bearer_token(mcp_name) of the CLI. `import subprocess` is a statement
\* of the try body, after the lookups: when a lookup raises, the handler clause
\* `except subprocess.CalledProcessError` reads the unbound local and the call
\* ends in UnboundLocalError instead of `return None`.
get_cognito_bearer_token_cli(env) ==
    IF env.ssm_fail # 0
    THEN CliRaised(Exc("UnboundLocalError", "subprocess", 0), 0)
    ELSE IF ~env.exit_zero
    THEN CliReturned(NoneValue, 1)
    ELSE IF env.stdout # "token"
    THEN CliReturned(NoneValue, 1)
    ELSE CliReturned(env.token, 1)

\* ------------------------------------------------------------ the CLI program
ToolNames == <<"add_numbers", "multiply_numbers", "greet_user">>

\* main() before it starts; also its value in a run of another program.
CliOff ==
    [ pc |-> "off",
      bearer_token |-> NoneValue,   \* main's local
      auth |-> NoCliAuthEnv,        \* how the last get_cognito_bearer_token went
      nGetToken |-> 0,              \* get_cognito_bearer_token calls
      checked |-> FALSE,            \* check_token_expiry has been evaluated
      check_tok |-> NoneValue,      \*   on this token
      check_now |-> 0,              \*   at this clock value
      check_ret |-> TRUE,           \*   and returned this
      header |-> NoneValue,         \* the token of the connect's Authorization header
      nConnect |-> 0,               \* streamablehttp_client connection attempts
      transport |-> "none",         \* "none", "open", "closed"
      session |-> "Disconnected",   \* Disconnected, Connected, Initialized, Closed
      initialized |-> FALSE,        \* session.initialize() has completed
      nListTools |-> 0,             \* session.list_tools calls
      tool |-> 1,                   \* the tool test main is at
      attempts |-> <<0, 0, 0>>,     \* session.call_tool calls, per tool
      outcomes |-> <<"", "", "">>,  \* how each tool test ended
      said_ok |-> FALSE,            \* printed "All tools are working correctly!"
      stage |-> "",                 \* the stage that ended the run in failure
      exc |-> NoExc,
      exit_code |-> -1 ]            \* the process's exit status, -1 while it runs

\* sys.exit(1), or an exception that leaves main(): exit status 1.
CliExit1(base, stage, e) ==
    cli' = [base EXCEPT !.pc = "exited", !.exit_code = 1, !.stage = stage, !.exc = e]

\* argparse, .bedrock_agentcore.yaml, default_agent, agent_arn
CliConfig ==
    /\ cli.pc = "config"
    /\ \E ok \in BOOLEAN :
         IF ok THEN cli' = [cli EXCEPT !.pc = "get_token"]
         ELSE CliExit1(cli, "config", NoExc)
    /\ UNCHANGED <<program, aws, now, agentVars>>

\* bearer_token = get_cognito_bearer_token(mcp_name); if not bearer_token: sys.exit(1)
CliGotToken(r, base, next) ==
    IF r.raised THEN CliExit1(base, "token", r.exc)
    ELSE IF Falsy(r.ret) THEN CliExit1([base EXCEPT !.bearer_token = r.ret], "token", NoExc)
    ELSE cli' = [base EXCEPT !.bearer_token = r.ret, !.pc = next]

CliGetToken ==
    /\ cli.pc = "get_token"
    /\ \E env \in CliAuthEnvs :
         CliGotToken(get_cognito_bearer_token_cli(env),
                     [cli EXCEPT !.nGetToken = @ + 1, !.auth = env], "check_expiry")
    /\ UNCHANGED <<program, aws, now, agentVars>>

\* if not check_token_expiry(bearer_token): get a fresh token
CliCheckExpiry ==
    /\ cli.pc = "check_expiry"
    /\ LET ret == check_token_expiry(cli.bearer_token, now)
       IN cli' = [cli EXCEPT !.checked = TRUE, !.check_tok = cli.bearer_token,
                             !.check_now = now, !.check_ret = ret,
                             !.pc = IF ret THEN "connect" ELSE "refresh"]
    /\ UNCHANGED <<program, aws, now, agentVars>>

\* A plausible slip: the fresh token is fetched but not assigned to bearer_token.
CliRefreshKeepingOldToken ==
    /\ cli.pc = "refresh"
    /\ \E env \in CliAuthEnvs :
         CliGotToken([get_cognito_bearer_token_cli(env) EXCEPT !.ret = cli.bearer_token],
                     [cli EXCEPT !.nGetToken = @ + 1, !.auth = env], "connect")
    /\ UNCHANGED <<program, aws, now, agentVars>>

CliRefresh ==
    /\ cli.pc = "refresh"
    /\ \E env \in CliAuthEnvs :
         CliGotToken(get_cognito_bearer_token_cli(env),
                     [cli EXCEPT !.nGetToken = @ + 1, !.auth = env], "connect")
    /\ UNCHANGED <<program, aws, now, agentVars>>

\* headers = {"authorization": f"Bearer {bearer_token}", ...};
\* async with streamablehttp_client(mcp_url, headers, timeout=120 s) as (...):
\*     async with ClientSession(read_stream, write_stream) as session:
CliConnect ==
    /\ cli.pc = "connect"
    /\ \E c \in CallOutcomes :
         LET sent == [cli EXCEPT !.header = cli.bearer_token, !.nConnect = @ + 1]
         IN IF c.o = "ok"
            THEN cli' = [sent EXCEPT !.transport = "open", !.session = "Connected",
                                     !.pc = "initialize"]
            ELSE CliExit1(sent, "connect", Exc("Exception", c.o, c.status))
    /\ UNCHANGED <<program, aws, now, agentVars>>

\* Leaving both `async with` blocks, normally or by an exception.
CliClosed(base) == [base EXCEPT !.transport = "closed", !.session = "Closed"]

\* A plausible slip: a failed handshake is swallowed and main goes on.
CliInitializeIgnoringFailure ==
    /\ cli.pc = "initialize"
    /\ \E c \in CallOutcomes :
         IF c.o = "ok"
         THEN cli' = [cli EXCEPT !.session = "Initialized", !.initialized = TRUE,
                                 !.pc = "list_tools"]
         ELSE cli' = [cli EXCEPT !.pc = "list_tools"]
    /\ UNCHANGED <<program, aws, now, agentVars>>

\* await session.initialize()
CliInitialize ==
    /\ cli.pc = "initialize"
    /\ \E c \in CallOutcomes :
         IF c.o = "ok"
         THEN cli' = [cli EXCEPT !.session = "Initialized", !.initialized = TRUE,
                                 !.pc = "list_tools"]
         ELSE CliExit1(CliClosed(cli), "initialize", Exc("Exception", c.o, c.status))
    /\ UNCHANGED <<program, aws, now, agentVars>>

\* tool_result = await session.list_tools()
CliListTools ==
    /\ cli.pc = "list_tools"
    /\ \E c \in CallOutcomes :
         LET listed == [cli EXCEPT !.nListTools = @ + 1]
         IN IF c.o = "ok"
            THEN cli' = [listed EXCEPT !.pc = "tools"]
            ELSE CliExit1(CliClosed(listed), "list_tools", Exc("Exception", c.o, c.status))
    /\ UNCHANGED <<program, aws, now, agentVars>>

\* What main does when a session.call_tool raised: print the error, go on.
AfterToolFailure(base, c) ==
    [base EXCEPT !.outcomes[base.tool] = c.o,
                 !.tool = @ + 1,
                 !.pc = IF base.tool = Len(ToolNames) THEN "finish" ELSE "tools"]

\* try: await session.call_tool(name=..., arguments=...) except Exception: print
CliCallTool ==
    /\ cli.pc = "tools"
    /\ \E c \in CallOutcomes :
         LET called == [cli EXCEPT !.attempts[cli.tool] = @ + 1]
         IN IF c.o = "ok"
            THEN cli' = [called EXCEPT !.outcomes[cli.tool] = "ok",
                                       !.tool = @ + 1,
                                       !.pc = IF cli.tool = Len(ToolNames) THEN "finish" ELSE "tools"]
            ELSE cli' = AfterToolFailure(called, c)
    /\ UNCHANGED <<program, aws, now, agentVars>>

\* print("All tools are working correctly!"); both contexts exit; main returns.
CliFinish ==
    /\ cli.pc = "finish"
    /\ cli' = [CliClosed(cli) EXCEPT !.said_ok = TRUE, !.pc = "exited", !.exit_code = 0]
    /\ UNCHANGED <<program, aws, now, agentVars>>

\* ------------------------------------------------- the local test client
\* blogpost_mcp_client.py: main() has no try/except, so an exception leaves
\* both `async with` blocks and main(), and the process ends with status 1.

\* headers = {}; async with streamablehttp_client("http://localhost:8000/mcp",
\* headers, timeout=120 s) as (...): async with ClientSession(...) as session:
LocalConnect ==
    /\ cli.pc = "local_connect"
    /\ \E c \in CallOutcomes :
         LET sent == [cli EXCEPT !.nConnect = @ + 1]
         IN IF c.o = "ok"
            THEN cli' = [sent EXCEPT !.transport = "open", !.session = "Connected",
                                     !.pc = "local_initialize"]
            ELSE CliExit1(sent, "connect", Exc("Exception", c.o, c.status))
    /\ UNCHANGED <<program, aws, now, agentVars>>

\* await session.initialize()
LocalInitialize ==
    /\ cli.pc = "local_initialize"
    /\ \E c \in CallOutcomes :
         IF c.o = "ok"
         THEN cli' = [cli EXCEPT !.session = "Initialized", !.initialized = TRUE,
                                 !.pc = "local_list_tools"]
         ELSE CliExit1(CliClosed(cli), "initialize", Exc("Exception", c.o, c.status))
    /\ UNCHANGED <<program, aws, now, agentVars>>

\* tool_result = await session.list_tools(); print; both contexts exit.
LocalListTools ==
    /\ cli.pc = "local_list_tools"
    /\ \E c \in CallOutcomes :
         LET listed == [cli EXCEPT !.nListTools = @ + 1]
         IN IF c.o = "ok"
            THEN cli' = [CliClosed(listed) EXCEPT !.pc = "exited", !.exit_code = 0]
            ELSE CliExit1(CliClosed(listed), "list_tools", Exc("Exception", c.o, c.status))
    /\ UNCHANGED <<program, aws, now, agentVars>>

\* ------------------------------------------------------- the setup script
\* setup_M2M_cognito.py, commands `setup` and `cleanup`. A run of a command is
\* one step: the runs of the script follow one another. The account holds what
\* the script made: no user pool of another origin, so that the single page of
\* list_user_pools shows every pool.

\* The MCP names (--mcp-name) whose resources are followed one by one. Runs for
\* any other name are counted (`others`).
Names == {"a", "b"}
\* The five parameters of /app/blogpost/mcp/{mcp_name}/ in the order setup
\* writes them and cleanup deletes them.
ParamKeys ==
    <<"userpool_id", "machine_client_id", "cognito_secret",
      "cognito_discovery_url", "cognito_domain">>
\* MaxResults of list_user_pool_clients: the size of the one page that is read.
MaxResults == 60

\* A parameter's value: the id of a pool or client, the secret of a client, a
\* URL made from a pool id, the placeholder, or a value found at the other path.
Val(kind, v) == [kind |-> kind, v |-> v]
Absent == Val("absent", 0)
Placeholder == Val("EXISTING_SECRET_NOT_AVAILABLE", 0)
LegacyValue == Val("value of /app/mcp/{name}/cognito_secret", 0)
\* UserPoolClient.ClientSecret of the client with this id.
ClientSecret(id) == Val("secret", id)

\* The user pool 'BlogpostMCPAgentPool': its id (0: there is none), its resource
\* servers 'blogpost-m2m-resource-server', its domain, the ids of its machine
\* clients per followed MCP name, and the number of its clients of other names.
NoPool ==
    [ id |-> 0, servers |-> 0, has_domain |-> FALSE,
      clients |-> [n \in Names |-> {}], others |-> 0 ]
NoRun == [op |-> "", name |-> "", ok |-> FALSE, stage |-> "", pool_id |-> 0]
NoAws ==
    [ pools |-> 0,                  \* user pools named 'BlogpostMCPAgentPool'
      pool |-> NoPool,              \* the one list_user_pools finds
      ssm |-> [n \in Names |-> [k \in 1..Len(ParamKeys) |-> Absent]],
      seq |-> 0,                    \* ids issued so far
      runs |-> 0,                   \* runs of the script so far
      last |-> NoRun ]              \* the last run: command, name, what it reported

\* The API calls of create_cognito_user_pool, in order; one of them may raise
\* an error the function does not handle ("none": no call does).
SetupCalls ==
    <<"list_user_pools", "create_user_pool", "list_resource_servers",
      "create_resource_server", "create_user_pool_domain", "list_user_pool_clients",
      "create_user_pool_client", "put_1", "put_2", "put_3", "put_4", "put_5">>
SetupEnvs ==
    [ fail_at : {"none"} \cup {SetupCalls[k] : k \in 1..Len(SetupCalls)},
      list_servers_client_error : BOOLEAN,   \* list_resource_servers raises ClientError
      on_first_page : BOOLEAN,               \* the name's client is among the first MaxResults
      legacy_found : BOOLEAN ]               \* /app/mcp/{name}/cognito_secret exists

\* The locals of create_cognito_user_pool over the account.
SetupStart(s) ==
    [ aws |-> s, failed |-> FALSE, user_pool_id |-> 0, machine_client_id |-> 0,
      machine_client_secret |-> Absent ]
SetupFail(r) == [r EXCEPT !.failed = TRUE]

\* list_user_pools, the search for 'BlogpostMCPAgentPool', create_user_pool.
FindUserPool(r, env) ==
    IF env.fail_at = "list_user_pools" THEN SetupFail(r)
    ELSE IF r.aws.pool.id # 0 THEN [r EXCEPT !.user_pool_id = r.aws.pool.id]
    ELSE IF env.fail_at = "create_user_pool" THEN SetupFail(r)
    ELSE [r EXCEPT !.aws.pool = [NoPool EXCEPT !.id = r.aws.seq + 1],
                   !.aws.pools = @ + 1,
                   !.aws.seq = @ + 1,
                   !.user_pool_id = r.aws.seq + 1]

\* list_resource_servers (a ClientError counts as "none exists"), the search
\* for the identifier, create_resource_server. Cognito rejects a second
\* resource server with an identifier the pool already has.
FindResourceServer(r, env) ==
    IF r.failed THEN r
    ELSE IF env.fail_at = "list_resource_servers" THEN SetupFail(r)
    ELSE IF ~env.list_servers_client_error /\ r.aws.pool.servers > 0 THEN r
    ELSE IF env.fail_at = "create_resource_server" \/ r.aws.pool.servers > 0 THEN SetupFail(r)
    ELSE [r EXCEPT !.aws.pool.servers = @ + 1]

\* create_user_pool_domain; "already has a domain configured" is not a failure.
SetUpDomain(r, env) ==
    IF r.failed THEN r
    ELSE IF env.fail_at = "create_user_pool_domain" THEN SetupFail(r)
    ELSE [r EXCEPT !.aws.pool.has_domain = TRUE]

Min(S) == CHOOSE x \in S : \A y \in S : x <= y
\* All app clients of the pool.
NClients(pool) == Cardinality(UNION {pool.clients[n] : n \in Names}) + pool.others

\* create_user_pool_client(ClientName=expected_client_name, GenerateSecret=True, ...)
NewMachineClient(r, name) ==
    IF name \in Names
    THEN [r EXCEPT !.aws.pool.clients[name] = @ \cup {r.aws.seq + 1},
                   !.aws.seq = @ + 1,
                   !.machine_client_id = r.aws.seq + 1,
                   !.machine_client_secret = ClientSecret(r.aws.seq + 1)]
    ELSE [r EXCEPT !.aws.pool.others = @ + 1]

\* list_user_pool_clients(MaxResults=60) without a second page, the search for
\* 'BlogpostMCPAgentMachineClient-{mcp_name}', then either a new client or, for
\* the client found, the read of /app/mcp/{mcp_name}/cognito_secret with the
\* placeholder when that read raises.
FindMachineClient(r, name, env) ==
    IF r.failed THEN r
    ELSE IF env.fail_at = "list_user_pool_clients" THEN SetupFail(r)
    ELSE LET mine == IF name \in Names THEN r.aws.pool.clients[name] ELSE {}
             seen == IF NClients(r.aws.pool) <= MaxResults \/ env.on_first_page
                     THEN mine ELSE {}
         IN IF seen # {}
            THEN [r EXCEPT !.machine_client_id = Min(seen),
                           !.machine_client_secret =
                               IF env.legacy_found THEN LegacyValue ELSE Placeholder]
            ELSE IF env.fail_at = "create_user_pool_client" THEN SetupFail(r)
            ELSE NewMachineClient(r, name)

\* The five put_parameter(Overwrite=True) calls; one that raises ends the
\* function after the ones before it were written.
StoreParameters(r, name, env) ==
    IF r.failed \/ name \notin Names THEN r
    ELSE LET values == << Val("pool", r.user_pool_id),
                          Val("client", r.machine_client_id),
                          r.machine_client_secret,
                          Val("discovery_url", r.user_pool_id),
                          Val("domain_url", r.user_pool_id) >>
             failing == {k \in 1..Len(ParamKeys) : SetupCalls[7 + k] = env.fail_at}
             written == IF failing = {} THEN Len(ParamKeys) ELSE Min(failing) - 1
         IN [r EXCEPT !.failed = (failing # {}),
                      !.aws.ssm[name] = [k \in 1..Len(ParamKeys) |->
                                            IF k <= written THEN values[k] ELSE @[k]]]

\* create_cognito_user_pool(mcp_name): the account after it and whether it
\* returned None.
create_cognito_user_pool(s, name, env) ==
    StoreParameters(
        FindMachineClient(
            SetUpDomain(FindResourceServer(FindUserPool(SetupStart(s), env), env), env),
            name, env),
        name, env)

\* The environments that make a difference to a run from account s: an answer
\* the run cannot get keeps its default.
SetupEnvsOf(s, name) ==
    { e \in SetupEnvs :
        /\ (s.pool.servers = 0 => ~e.list_servers_client_error)
        /\ (s.pool.clients[name] = {} => e.on_first_page /\ ~e.legacy_found)
        /\ (NClients(s.pool) <= MaxResults => e.on_first_page) }

\* `setup --mcp-name name`: exit status 1 when create_cognito_user_pool returned None.
Setup(name) ==
    /\ program = "setup"
    /\ aws.runs < MaxRuns
    /\ \E env \in SetupEnvsOf(aws, name) :
         LET r == create_cognito_user_pool(aws, name, env)
         IN aws' = [r.aws EXCEPT !.runs = @ + 1,
                                 !.last = [op |-> "setup", name |-> name, ok |-> ~r.failed,
                                           stage |-> "", pool_id |-> r.user_pool_id]]
    /\ UNCHANGED <<program, now, agentVars, cli>>

\* `setup` for an MCP name that is not followed and was not used before, in a
\* run without errors: its client is new, its parameters are its own.
SetupOther ==
    /\ program = "setup"
    /\ aws.pool.others < MaxOthers
    /\ LET env == [fail_at |-> "none", list_servers_client_error |-> FALSE,
                   on_first_page |-> TRUE, legacy_found |-> FALSE]
           r == create_cognito_user_pool(aws, "other", env)
       IN aws' = [r.aws EXCEPT !.last = [op |-> "setup", name |-> "other", ok |-> ~r.failed,
                                         stage |-> "", pool_id |-> r.user_pool_id]]
    /\ UNCHANGED <<program, now, agentVars, cli>>

\* What the calls of delete_cognito_resources meet.
CleanupEnvs ==
    { e \in [ lookup_fails : BOOLEAN,
              domain : {"deleted", "not_deleted"},
              delete_pool_fails : BOOLEAN,
              param_fail : 0..Len(ParamKeys),
              param_error : {"ClientError", "other"} ] :
        /\ (e.param_fail = 0 => e.param_error = "ClientError")
        /\ (e.lookup_fails =>
               e.domain = "not_deleted" /\ ~e.delete_pool_fails /\ e.param_fail = 0)
        /\ (e.delete_pool_fails => e.param_fail = 0) }

\* The loop over the five parameter names: delete_parameter, a ClientError is
\* printed and the loop goes on, any other exception leaves the function.
DeleteParameters(s, name, env) ==
    IF env.param_fail # 0 /\ env.param_error = "other"
    THEN [ aws |-> [s EXCEPT !.ssm[name] = [k \in 1..Len(ParamKeys) |->
                                               IF k < env.param_fail THEN Absent ELSE @[k]]],
           ok |-> FALSE, stage |-> "delete_parameter" ]
    ELSE [ aws |-> [s EXCEPT !.ssm[name] = [k \in 1..Len(ParamKeys) |->
                                               IF k = env.param_fail THEN @[k] ELSE Absent]],
           ok |-> TRUE, stage |-> "done" ]

\* delete_cognito_resources(mcp_name): get_parameter of userpool_id,
\* delete_user_pool_domain for the name built from the pool id (no outcome of
\* it ends the function), delete_user_pool (which raises for a pool id that no
\* pool has, and whenever Cognito refuses, as for a pool that kept its
\* domain), then the parameters.
delete_cognito_resources(s, name, env) ==
    LET stored == s.ssm[name][1]
        known == s.pool.id # 0 /\ stored = Val("pool", s.pool.id)
        d == IF known /\ env.domain = "deleted"
             THEN [s EXCEPT !.pool.has_domain = FALSE] ELSE s
    IN IF env.lookup_fails \/ stored = Absent
       THEN [aws |-> s, ok |-> FALSE, stage |-> "get_parameter"]
       ELSE IF env.delete_pool_fails \/ ~known
       THEN [aws |-> d, ok |-> FALSE, stage |-> "delete_user_pool"]
       ELSE DeleteParameters([d EXCEPT !.pool = NoPool, !.pools = @ - 1], name, env)

\* `cleanup --mcp-name name`: "deleted successfully" or "Failed to delete".
Cleanup(name) ==
    /\ program = "setup"
    /\ aws.runs < MaxRuns
    /\ \E env \in CleanupEnvs :
         LET r == delete_cognito_resources(aws, name, env)
         IN aws' = [r.aws EXCEPT !.runs = @ + 1,
                                 !.last = [op |-> "cleanup", name |-> name, ok |-> r.ok,
                                           stage |-> r.stage,
                                           pool_id |-> aws.ssm[name][1].v]]
    /\ UNCHANGED <<program, now, agentVars, cli>>

\* The programs are separate processes that share no state: a behaviour runs
\* the programs of one of the sets below, one of them per behaviour.
InitOf(programs) ==
    /\ program \in programs
    /\ now = 1
    /\ AgentIdle
    /\ cli = IF program = "cli" THEN [CliOff EXCEPT !.pc = "config"]
             ELSE IF program = "local" THEN [CliOff EXCEPT !.pc = "local_connect"]
             ELSE CliOff
    /\ aws = NoAws

\* The steps of single_agent_mcp_bedrock that both agents have.
AgentStep(i) ==
    \/ Arrive(i)
    \/ Dispatch(i)
    \/ Entry(i)
    \/ CheckAgent(i)
    \/ CreateToken(i)
    \/ CreateClient(i)
    \/ CreateStart(i)
    \/ CreateList(i)
    \/ CreateAgent(i)
    \/ Run(i)

CliStep ==
    \/ CliConfig
    \/ CliGetToken
    \/ CliCheckExpiry
    \/ CliRefresh
    \/ CliConnect
    \/ CliInitialize
    \/ CliListTools
    \/ CliCallTool
    \/ CliFinish

\* The agent with the client-credentials flow.
NextM2M ==
    \/ Tick
    \/ \E i \in Invokers : AgentStep(i)
    \/ \E i \in Invokers : CreateSsm(i)
SpecM2M == InitOf({"agent_m2m"}) /\ [][NextM2M]_vars

\* Either agent.
SpecAgents == InitOf(AgentPrograms) /\ [][NextM2M]_vars

\* The CLI client.
NextCli ==
    \/ Tick
    \/ CliStep
SpecCli == InitOf({"cli"}) /\ [][NextCli]_vars

\* The two clients: the CLI client of the deployed server, or the local test
\* client.
LocalStep ==
    \/ LocalConnect
    \/ LocalInitialize
    \/ LocalListTools
NextClients ==
    \/ NextCli
    \/ LocalStep
SpecClients == InitOf({"cli", "local"}) /\ [][NextClients]_vars

\* The agent with the client-credentials flow, or the CLI client.
NextM2MCli ==
    \/ NextM2M
    \/ CliStep
SpecM2MCli == InitOf({"agent_m2m", "cli"}) /\ [][NextM2MCli]_vars

\* The two programs of the user-password flow: the agent, or the CLI client.
NextUserFlow ==
    \/ Tick
    \/ \E i \in Invokers : AgentStep(i)
    \/ CliStep
SpecUserFlow == InitOf({"agent_user", "cli"}) /\ [][NextUserFlow]_vars

\* The setup script, run again and again against one account.
NextSetup ==
    \/ \E name \in Names : Setup(name)
    \/ SetupOther
    \/ \E name \in Names : Cleanup(name)
SpecSetup == InitOf({"setup"}) /\ [][NextSetup]_vars

\* ================================================================== claims
Done(i) == inv[i].pc = "done"
\* The invocation carried an input, so it needed the session.
Served(i) == Done(i) /\ inv[i].result.kind # "no_input"
\* What an invocation observed: the session it ran on, or the failure to make one.
Observed(i) ==
    IF inv[i].result.kind = "create_failed"
    THEN [session |-> 0, failure |-> inv[i].result.exc]
    ELSE [session |-> inv[i].result.session, failure |-> NoExc]
Racers == {i \in Invokers : inv[i].racer}

\* C1: invocations that arrive together before any session exists cause exactly
\* one create_agent (token acquisition + connect + initialize), and all of them
\* end with the same session or the same failure.
C1_SingleFlightCreation ==
    /\ Cardinality({i \in Racers : inv[i].nCreate > 0}) <= 1
    /\ \A i, j \in Racers : (Served(i) /\ Served(j)) => Observed(i) = Observed(j)

\* C2: an invocation that starts when the cached session's token has reached its
\* expiry gets a fresh token and starts a fresh client before it runs the call,
\* and does not run on the old transport.
C2_RefreshOnExpiry ==
    \A i \in Invokers :
        (Done(i) /\ inv[i].stale /\ inv[i].nRun > 0)
            => /\ inv[i].nCreate = 1
               /\ inv[i].nGetToken = 1
               /\ inv[i].nStart = 1

\* C3: a call rejected with an authentication-class error (401/403) on an
\* established session is followed by one re-authentication and exactly one
\* retry of the call.
C3_RetryOnceOnAuthError ==
    /\ \A i \in Invokers : (Done(i) /\ inv[i].runErr = "auth") => inv[i].nRun = 2
    /\ \A k \in 1..Len(ToolNames) : cli.outcomes[k] = "auth" => cli.attempts[k] = 2

\* C4: a failure of a call that is not authentication-class is surfaced at once:
\* the operation was attempted exactly once, and no token was requested and no
\* client started beyond those of the session's creation.
C4_OtherFailureNotRetried ==
    /\ \A i \in Invokers :
         (Done(i) /\ inv[i].runErr = "other")
            => /\ inv[i].nRun = 1
               /\ inv[i].result.kind = "exec_failed"
               /\ inv[i].result.exc.msg = "other"
               /\ inv[i].nGetToken <= inv[i].nCreate
               /\ inv[i].nStart <= inv[i].nCreate
    /\ \A k \in 1..Len(ToolNames) :
         cli.outcomes[k] = "other" => (cli.attempts[k] = 1 /\ cli.nConnect = 1)
    /\ (cli.exc.msg = "other" /\ cli.stage \in {"connect", "initialize", "list_tools"})
            => (cli.exit_code = 1 /\ cli.nConnect = 1 /\ cli.attempts = <<0, 0, 0>>)

\* C4's case: a call of the agent on an established session failed with an
\* error that is not authentication-class, and the invocation has returned.
C4_Witness ==
    \E i \in Invokers : Done(i) /\ inv[i].runErr = "other" /\ inv[i].nCreate = 0

\* C5: for a well-formed token check_token_expiry answers "valid" exactly when
\* the token has an exp claim greater than the current time; exp = now and a
\* payload without exp are answered "expired".
C5_ExpiryCheck ==
    (cli.checked /\ WellFormed(cli.check_tok))
        => (cli.check_ret <=> (/\ cli.check_tok.parts[2].has_exp
                               /\ cli.check_tok.parts[2].exp > cli.check_now))

\* C6: for a malformed token check_token_expiry answers "valid", and main goes
\* on to connect with that very token without asking for another.
C6_MalformedFailOpen ==
    (cli.checked /\ ~WellFormed(cli.check_tok))
        => /\ cli.check_ret
           /\ cli.pc # "refresh"
           /\ cli.nGetToken = 1
           /\ cli.bearer_token = cli.check_tok
           /\ cli.nConnect > 0 => cli.header = cli.check_tok

\* C6's case: the token had the wrong number of segments and the connection was
\* opened with it.
C6_Witness ==
    /\ cli.checked
    /\ Len(cli.check_tok.parts) # 3
    /\ cli.transport = "open"
    /\ cli.header = cli.check_tok

\* The discovery document was answered with a non-200 status, or without a
\* token_endpoint.
DiscoveryFailed(env) ==
    env.silent # "get" /\ ~env.get_raises /\ (env.disc_status # 200 \/ (env.disc_is_json /\ ~env.disc_has_endpoint))
DiscoveryErrors(env) ==
    { Exc("Exception", "Failed to fetch discovery data", env.disc_status),
      Exc("KeyError", "token_endpoint", 0) }
CalledGetBearerToken(i) == program = "agent_m2m" /\ inv[i].nGetToken = 1

\* C7: when discovery answers non-200 or without token_endpoint, get_bearer_token
\* raises the discovery failure and has made no POST.
C7_DiscoveryFailureNoPost ==
    \A i \in Invokers :
        (CalledGetBearerToken(i) /\ DiscoveryFailed(inv[i].oauth))
            => /\ Done(i)
               /\ inv[i].result.kind = "create_failed"
               /\ inv[i].result.exc \in DiscoveryErrors(inv[i].oauth)
               /\ inv[i].nPost = 0
               /\ inv[i].bearer_token = NoToken

\* C7's case: one invocation met a non-200 discovery answer, another a
\* discovery document without token_endpoint.
C7_Witness ==
    \E i, j \in Invokers :
        /\ CalledGetBearerToken(i) /\ CalledGetBearerToken(j)
        /\ ~inv[i].oauth.get_raises /\ inv[i].oauth.disc_status # 200
        /\ ~inv[j].oauth.get_raises /\ inv[j].oauth.disc_status = 200
        /\ ~inv[j].oauth.disc_has_endpoint

\* The token endpoint answered 200 with a JSON body.
Got200(env) ==
    DiscoveryOk(env) /\ env.silent = "none" /\ ~env.post_raises /\ env.post_status = 200 /\ env.post_is_json
MissingToken == Exc("Exception", "No access token in response", 0)

\* C8: on a 200 answer without access_token get_bearer_token raises the
\* missing-token failure and returns no token; with the field present it returns
\* exactly the field's value.
C8_AccessTokenRequired ==
    \A i \in Invokers :
        (CalledGetBearerToken(i) /\ Got200(inv[i].oauth))
            => IF "access_token" \in DOMAIN inv[i].oauth.post_body
               THEN /\ inv[i].bearer_token = inv[i].oauth.post_body.access_token
                    /\ inv[i].result.exc # MissingToken
               ELSE /\ Done(i)
                    /\ inv[i].result = Result("create_failed", MissingToken, 0)
                    /\ inv[i].bearer_token = NoToken
                    /\ inv[i].nStart = 0

\* C8's case: one invocation got a 200 answer without access_token, another a
\* 200 answer with it.
C8_Witness ==
    \E i, j \in Invokers :
        /\ CalledGetBearerToken(i) /\ Got200(inv[i].oauth)
        /\ "access_token" \notin DOMAIN inv[i].oauth.post_body
        /\ "id_token" \in DOMAIN inv[i].oauth.post_body
        /\ CalledGetBearerToken(j) /\ Got200(inv[j].oauth)
        /\ "access_token" \in DOMAIN inv[j].oauth.post_body

\* The token endpoint answered with a status other than 200.
GotNon200(env) ==
    DiscoveryOk(env) /\ env.silent = "none" /\ ~env.post_raises /\ env.post_status # 200

\* C9: on a non-200 answer of the token endpoint get_bearer_token raises the
\* failure that carries the status, whether or not the body parses as JSON, and
\* returns no token.
C9_TokenRequestErrorCarriesStatus ==
    \A i \in Invokers :
        (CalledGetBearerToken(i) /\ GotNon200(inv[i].oauth))
            => /\ Done(i)
               /\ inv[i].result = Result("create_failed",
                      Exc("Exception", "Token request failed with status",
                          inv[i].oauth.post_status), 0)
               /\ inv[i].bearer_token = NoToken

\* C9's case: one invocation got a non-200 answer with a JSON error body,
\* another one whose body is not JSON.
C9_Witness ==
    \E i, j \in Invokers :
        /\ CalledGetBearerToken(i) /\ GotNon200(inv[i].oauth) /\ inv[i].oauth.post_is_json
        /\ CalledGetBearerToken(j) /\ GotNon200(inv[j].oauth) /\ ~inv[j].oauth.post_is_json

TokenAcquisitionFails(env) ==
    /\ env.silent = "none"
    /\ ~(Got200(env) /\ "access_token" \in DOMAIN env.post_body)
\* The create_agent of invocation i met a failing secret lookup, discovery or
\* token request.
FailedBeforeClient(i) ==
    /\ program = "agent_m2m"
    /\ \/ inv[i].ssm_fail # 0
       \/ inv[i].nGetToken = 1 /\ TokenAcquisitionFails(inv[i].oauth)

\* C11: a create_agent whose secret lookup, discovery or token request failed
\* has built and started no MCP client, the invocation has returned the
\* failure, and a cached agent, if there is one, is not of this creation.
C11_FailedAcquisitionAbortsCreation ==
    \A i \in Invokers :
        FailedBeforeClient(i)
            => /\ Done(i)
               /\ inv[i].result.kind = "create_failed"
               /\ inv[i].result.exc # NoExc
               /\ inv[i].result.session = NoClient
               /\ inv[i].client = NoClient
               /\ inv[i].nStart = 0
               /\ inv[i].nRun = 0
               /\ agent # NoClient => \E j \in Invokers \ {i} : inv[j].client = agent

\* C11's case: the lookup of the client secret failed in one invocation and the
\* token request of another was answered with a non-200 status.
C11_Witness ==
    \E i, j \in Invokers :
        /\ program = "agent_m2m"
        /\ Done(i) /\ inv[i].ssm_fail = 2
        /\ Done(j) /\ inv[j].nGetToken = 1 /\ GotNon200(inv[j].oauth)

\* C12: when a step after a successful connect fails (initialize, list tools, a
\* tool call, the construction of the agent), the transport that was opened is
\* closed by the time the failure is reported: in create_agent the client the
\* failed creation started is no longer started, in the CLI the transport is
\* closed.
C12_TransportReleasedOnFailure ==
    /\ \A i \in Invokers :
         (Done(i) /\ inv[i].result.kind = "create_failed" /\ inv[i].client # NoClient)
            => ~clients[inv[i].client].started
    /\ (cli.pc = "exited" /\ cli.nConnect > 0 /\ cli.stage # "connect")
            => cli.transport = "closed"

\* C13: in every reachable state at most one MCP client is started: none is
\* started while an earlier one is still started.
C13_OneLiveSession == Cardinality(Started) <= 1

\* The invocation started when a session was cached and its token had not expired.
FoundFreshSession(i) == inv[i].found # NoClient /\ ~inv[i].stale

\* C14: an invocation that finds a cached session whose token has not expired
\* makes no secret lookup, no token call, builds and starts no client, and its
\* call runs on the cached session.
C14_CachedSessionReused ==
    \A i \in Invokers :
        FoundFreshSession(i)
            => /\ inv[i].nCreate = 0
               /\ inv[i].nLookup = 0
               /\ inv[i].nGetToken = 0
               /\ inv[i].nHttpGet = 0 /\ inv[i].nPost = 0
               /\ inv[i].client = NoClient
               /\ inv[i].nStart = 0
               /\ agent = inv[i].found
               /\ Served(i) => (inv[i].nRun = 1 /\ inv[i].result.session = inv[i].found)

\* C14's case: an invocation found a fresh cached session and its call succeeded.
C14_Witness ==
    \E i \in Invokers :
        FoundFreshSession(i) /\ Done(i) /\ inv[i].result.kind = "ok"

\* A stage of the CLI run ended in an error: the run was cut short at a stage,
\* or a tool call was rejected with an authentication-class status.
CliStageFailed ==
    \/ cli.stage \in {"token", "connect", "initialize", "list_tools"}
    \/ \E k \in 1..Len(ToolNames) : cli.outcomes[k] = "auth"

\* C16: a CLI run in which token acquisition, connect, initialize, list tools or
\* a tool call ended in an error exits with a non-zero status and has not
\* reported overall success.
C16_NonZeroExitOnFailure ==
    (cli.pc = "exited" /\ CliStageFailed) => (cli.exit_code # 0 /\ ~cli.said_ok)

\* The order of a client's session: connect before initialize, initialize
\* completed before any list_tools or call_tool.
SessionOrder ==
    /\ cli.session \in {"Connected", "Initialized", "Closed"} => cli.nConnect > 0
    /\ cli.initialized => cli.nConnect > 0
    /\ cli.session = "Initialized" => (cli.initialized /\ cli.transport = "open")
    /\ (cli.nListTools > 0 \/ \E k \in 1..Len(ToolNames) : cli.attempts[k] > 0)
            => cli.initialized
\* Once the transport is closed it stays closed and no further request is issued.
NoUseAfterClose ==
    cli.transport = "closed"
        => /\ cli'.transport = "closed" /\ cli'.session = "Closed"
           /\ cli'.nConnect = cli.nConnect
           /\ cli'.nListTools = cli.nListTools
           /\ cli'.attempts = cli.attempts
\* A connect was made only with a token obtained before it.
TokenBeforeConnect ==
    cli.nConnect > 0 => (cli.nGetToken > 0 /\ ~Falsy(cli.header))

CliTokenObtained == CliProviderReturnedToken(cli.auth) /\ ~Falsy(cli.auth.token)

\* C18: the CLI evaluates check_token_expiry on the token it obtained before it
\* connects; when the check reports it expired, the token call is made again
\* and the connect's Authorization header carries the token of that second
\* call; when the second call yields no token there is no connect.
C18_RefreshBeforeConnect ==
    /\ (program = "cli" /\ cli.nConnect > 0) => cli.checked
    /\ (cli.checked /\ cli.nGetToken = 1)
            => (cli.check_tok = cli.auth.token /\ cli.bearer_token = cli.check_tok)
    /\ (cli.checked /\ cli.check_ret)
            => (cli.nGetToken = 1 /\ (cli.nConnect > 0 => cli.header = cli.check_tok))
    /\ (cli.checked /\ ~cli.check_ret)
            => \/ cli.pc = "refresh" /\ cli.nGetToken = 1 /\ cli.nConnect = 0
               \/ /\ cli.nGetToken = 2
                  /\ IF CliTokenObtained
                     THEN /\ cli.bearer_token = cli.auth.token
                          /\ cli.nConnect > 0 => cli.header = cli.auth.token
                     ELSE /\ cli.nConnect = 0
                          /\ cli.pc = "exited" /\ cli.exit_code = 1

\* C18's case: the first token was reported expired and the connection was
\* opened with the different token of the second call.
C18_Witness ==
    /\ cli.checked /\ ~cli.check_ret
    /\ cli.nGetToken = 2
    /\ cli.transport = "open"
    /\ cli.header = cli.auth.token
    /\ cli.header # cli.check_tok

\* C19: when the remote side never answers a network operation, the operation
\* fails with a timeout error instead of blocking the invocation: the
\* invocation does not wait without limit, it returns the timeout failure, and
\* the request was made once.
C19_NetworkOperationsTimeOut ==
    \A i \in Invokers :
        /\ inv[i].pc # "hung"
        /\ (CalledGetBearerToken(i) /\ inv[i].oauth.silent # "none")
              => /\ Done(i)
                 /\ inv[i].result.kind = "create_failed"
                 /\ inv[i].result.exc.type = "Timeout"
                 /\ inv[i].nHttpGet = 1
                 /\ inv[i].nPost <= 1

\* Invocation i built the whole session k: it obtained a token, built client k
\* with it, started it and listed its tools, and its creation did not fail.
BuiltSession(i, k) ==
    /\ inv[i].client = k
    /\ inv[i].nGetToken = 1 /\ inv[i].bearer_token # NoToken
    /\ clients[k].token = inv[i].bearer_token
    /\ inv[i].nStart = 1 /\ clients[k].started
    /\ inv[i].listed
    /\ inv[i].pc \in {"run", "done"}
    /\ inv[i].result.kind # "create_failed"
\* What holds of the cached agent in a state.
CachedAgentIsWhole ==
    /\ agent # NoClient => \E i \in Invokers : BuiltSession(i, agent)
    /\ \A i \in Invokers :
         /\ (Done(i) /\ inv[i].result.kind = "create_failed" /\ agent # NoClient)
              => agent # inv[i].client
         /\ (inv[i].found = NoClient /\ inv[i].pc \in {"run", "done"} /\ Served(i))
              => inv[i].nCreate = 1
         /\ inv[i].nRun > 0 => (agent # NoClient /\ clients[agent].started)
\* A create_agent that fails leaves the cached agent unset.
FailureNotCached ==
    \A i \in Invokers :
        (inv[i].pc # "done" /\ inv'[i].pc = "done" /\ inv'[i].result.kind = "create_failed")
            => (agent = NoClient /\ agent' = NoClient)

\* C20: a cached agent exists only if its token acquisition, the start of its
\* MCP client and its tool listing succeeded; a session creation that failed
\* leaves the agent unset, the invocation after it runs the whole creation
\* again, and a call is only ever served by a whole session.
C20_OnlyWholeSessionsCached == [][CachedAgentIsWhole' /\ FailureNotCached]_vars

\* C20's case: a creation failed after its client had been built, and the next
\* invocation created the session anew and was served by it.
C20_Witness ==
    \E i, j \in Invokers :
        /\ Done(i) /\ inv[i].result.kind = "create_failed" /\ inv[i].client # NoClient
        /\ Done(j) /\ inv[j].result.kind = "ok" /\ inv[j].nCreate = 1
        /\ inv[j].client > inv[i].client
        /\ agent = inv[j].client

\* The entrypoint is about to read a payload with neither a non-empty `input`
\* nor a non-empty `prompt`.
EmptyPayloadAtEntry(i) ==
    /\ inv[i].pc = "entry"
    /\ ~Truthy(inv[i].payload.input)
    /\ ~Truthy(inv[i].payload.prompt)

\* C21: the step of an invocation with such a payload returns the error
\* message and changes neither the cached agent nor the MCP client; the
\* invocation has made no lookup, no token call, built and started no client
\* and run no call.
C21_EmptyPayloadNoEffect ==
    [][\A i \in Invokers :
         (EmptyPayloadAtEntry(i) /\ inv'[i] # inv[i])
            => /\ inv'[i].pc = "done"
               /\ inv'[i].result = Result("no_input", NoExc, 0)
               /\ agent' = agent /\ mcp_client' = mcp_client /\ clients' = clients
               /\ inv'[i].nCreate = 0 /\ inv'[i].nLookup = 0
               /\ inv'[i].nGetToken = 0 /\ inv'[i].nHttpGet = 0 /\ inv'[i].nPost = 0
               /\ inv'[i].client = NoClient /\ inv'[i].nStart = 0
               /\ inv'[i].nRun = 0]_vars

\* C21's case: an invocation without input returned while a session was cached.
C21_Witness ==
    \E i \in Invokers :
        /\ Done(i) /\ inv[i].result.kind = "no_input"
        /\ inv[i].found # NoClient /\ agent = inv[i].found


\* A run of the setup script for MCP name n has just ended.
RanFor(op, n) ==
    /\ aws'.runs = aws.runs + 1
    /\ aws'.last.op = op
    /\ aws'.last.name = n

\* The parameter cognito_secret of n holds the secret of a machine client that
\* the pool has for n.
RealSecretStored(s, n) ==
    /\ s.ssm[n][3].kind = "secret"
    /\ s.ssm[n][3].v \in s.pool.clients[n]

\* C22: a run of `setup` for a name whose cognito_secret parameter holds the
\* real secret of its existing machine client leaves that value in place.
C22_RerunKeepsSecret ==
    [][\A n \in Names :
          RanFor("setup", n) /\ RealSecretStored(aws, n)
              => aws'.ssm[n][3] = aws.ssm[n][3]]_vars

\* C23: after any runs of `setup` there is at most one pool of the name, at
\* most one resource server in it and at most one machine client per MCP name.
C23_NoDuplicateResources ==
    /\ aws.pools <= 1
    /\ aws.pool.servers <= 1
    /\ \A n \in Names : Cardinality(aws.pool.clients[n]) <= 1

\* C24: a cleanup that reports success has deleted the pool it looked up and
\* leaves none of the five parameters of the name; a cleanup that could not
\* look the pool up or delete it reports failure and deletes no parameter.
C24_CleanupOutcome ==
    [][\A n \in Names :
          RanFor("cleanup", n) =>
              /\ aws'.last.ok =>
                     /\ aws'.pool.id # aws'.last.pool_id
                     /\ \A k \in 1..Len(ParamKeys) : aws'.ssm[n][k] = Absent
              /\ aws'.last.stage \in {"get_parameter", "delete_user_pool"} =>
                     /\ ~aws'.last.ok
                     /\ aws'.ssm = aws.ssm]_vars

=============================================================================
